---------------------------- MODULE Spec2Model ----------------------------
(***************************************************************************)
(* A model of the Canvas LMS assignment synchroniser of src/main.ts: the   *)
(* sync command, syncAssignments, syncCourse, makeAssignment, the "Clear"  *)
(* button of the settings tab, and the collaborators they talk to (the     *)
(* Canvas REST server and the vault of note files).                        *)
(*                                                                         *)
(* JavaScript runs one task at a time: a handler runs until its next       *)
(* await, and only there can another task (the completion of a file        *)
(* operation, a user action) run.  The program counter pc names the await  *)
(* the sync invocation is suspended at; the assignment loop of syncCourse  *)
(* holds no await, so while pc = "loop" nothing else is enabled.           *)
(***************************************************************************)
EXTENDS Integers, Sequences, FiniteSets, TLC

(***************************************************************************)
(* Bounds of the model.                                                    *)
(***************************************************************************)
\* how many steps the world around the plugin takes (remote edits, the user
\* deleting or editing a note, the user clearing the cache)
MaxEnvSteps == 2

(***************************************************************************)
(* Optional values (TypeScript's  T | null | undefined): a sequence of     *)
(* length 0 or 1.                                                          *)
(***************************************************************************)
None == <<>>
Some(x) == <<x>>

EmptyMap == [x \in {} |-> x]

Range(s) == {s[i] : i \in DOMAIN s}

RECURSIVE Flatten(_)
Flatten(ss) == IF ss = <<>> THEN <<>> ELSE Head(ss) \o Flatten(Tail(ss))

(***************************************************************************)
(* Strings that the code takes apart are sequences of one-character        *)
(* strings (or of tokens); the others are TLA+ strings.                    *)
(***************************************************************************)
InvalidCharacters == {"/", "\\", ":", "[", "]", "|", "#", "^", "*", "&"}

\* String.prototype.replace with a string pattern: the first occurrence only
RECURSIVE ReplaceFirst(_, _, _)
ReplaceFirst(str, pat, rep) ==
    IF str = <<>> THEN <<>>
    ELSE IF Head(str) = pat THEN rep \o Tail(str)
    ELSE <<Head(str)>> \o ReplaceFirst(Tail(str), pat, rep)

\* str.replace(/[/\\:\[\]|#^*&]/g, "_").replace('"', "'")
replaceInvalidCharacters(str) ==
    ReplaceFirst([i \in DOMAIN str |->
                     IF str[i] \in InvalidCharacters THEN "_" ELSE str[i]],
                 "\"", <<"'">>)

\* a.replace(/\/$/, "")
StripTrailingSlash(a) ==
    IF a /= <<>> /\ a[Len(a)] = "/" THEN SubSeq(a, 1, Len(a) - 1) ELSE a

\* b.replace(/^\//, "")
StripLeadingSlash(b) ==
    IF b /= <<>> /\ b[1] = "/" THEN Tail(b) ELSE b

\* paths.filter((p) => p).reduce((a, b) => ... + "/" + ...), for two paths
joinPaths(p1, p2) ==
    LET kept == SelectSeq(<<p1, p2>>, LAMBDA p : p /= <<>>)
    IN  IF Len(kept) = 2
        THEN StripTrailingSlash(kept[1]) \o <<"/">> \o StripLeadingSlash(kept[2])
        ELSE kept[1]

\* joinPaths(course.folder, replaceInvalidCharacters(assignment.name)) + ".md"
NewFilePath(course, assignment) ==
    joinPaths(course.folder, replaceInvalidCharacters(assignment.name))
        \o <<".md">>

(***************************************************************************)
(* settings: the parsed course list and the rubric mode.                   *)
(***************************************************************************)
Courses ==
    << [id |-> 7, folder |-> <<"A">>, extraTags |-> <<"hw">>,
        extraFrontmatter |-> << <<"class", "math">> >>],
       [id |-> 548, folder |-> <<"B">>, extraTags |-> <<>>,
        extraFrontmatter |-> <<>>] >>

\* settings.coursesText, the text the course list was parsed from
CoursesText ==
    << "id = 7; folder = A; tags = hw; class = math",
       "id = 548; folder = B" >>

\* DEFAULT_SETTINGS.rubricMode
rubricMode == "todo-list"

\* the course id written into the request of every page after the first
PageCourse == 548

(***************************************************************************)
(* The Canvas server.  Each course has its assignments in pages; an        *)
(* assignment's name, due date and updated_at can change on the server,    *)
(* the rest of it is fixed.                                                *)
(***************************************************************************)
AssignmentIds == {1, 2, 3, 4}

\* the assignments the teacher edits
EditedIds == {1, 4}

CoursePages == (7 :> << <<1>>, <<2>> >>) @@ (548 :> << <<3>>, <<4>> >>)

OriginalName(id) ==
    CASE id = 1 -> <<"Q", "/", "1">>
      [] id = 2 -> <<"L">>
      [] id = 3 -> <<"E">>
      [] id = 4 -> <<"F">>

\* the name an assignment is renamed to, and back
OtherName(id) ==
    CASE id = 1 -> <<"Q", ":", "1">>
      [] id = 2 -> <<"M">>
      [] id = 3 -> <<"G">>
      [] id = 4 -> <<"Q", "_", "1">>

Rubric(id) ==
    CASE id = 1 -> Some(<< [points |-> 5, description |-> "clarity",
                            long_description |-> Some("is it clear")],
                           [points |-> 3, description |-> "style",
                            long_description |-> None] >>)
      [] id = 3 -> Some(<<>>)
      [] OTHER  -> None

Description(id) ==
    IF id = 4 THEN None ELSE Some(<<"<h2>", "\n", "text", "\n", "</h2>">>)

CreatedDay(id) ==
    CASE id = 1 -> "day1" [] id = 2 -> "day2" [] id = 3 -> "day3"
      [] id = 4 -> "day4"

\* the course an assignment belongs to
CourseOf(id) ==
    CHOOSE c \in DOMAIN CoursePages : id \in Range(Flatten(CoursePages[c]))

\* the JSON the server sends for assignment id when its mutable part is r;
\* html_url is https://{canvasURL}/courses/{course}/assignments/{id}
ApiAssignment(id, r) ==
    [id |-> id, name |-> r.name, description |-> Description(id),
     created_at |-> <<CreatedDay(id), "T", "noon">>,
     updated_at |-> r.updated_at, due_at |-> r.due_at,
     course_id |-> CourseOf(id),
     html_url |-> <<"courses", CourseOf(id), "assignments", id>>,
     has_submitted_submissions |-> FALSE,
     rubric |-> Rubric(id)]

(***************************************************************************)
(* The state.                                                              *)
(***************************************************************************)
VARIABLES
    knownAssignments, \* the cache in memory: assignment id -> Assignment
    savedData,        \* the cache as last handed to saveData
    files,            \* the vault's note files: path -> note
    folders,          \* the vault's folders
    pending,          \* file operations started and not yet completed
    remote,           \* the server: id -> [name, updated_at, due_at]
    pc,               \* where the sync invocation is suspended
    ci,               \* syncAssignments: index of the course being synced
    linkHeader,       \* syncCourse: linkHeader
    numPages,         \* syncCourse: numPages
    pageIdx,          \* syncCourse: i, the page index of the request in flight
    assignments,      \* syncCourse: assignments
    ai,               \* syncCourse: index of the next assignment of the loop
    result,           \* what the command callback reported last
    envSteps,         \* how many steps the world has taken
    sync,             \* history: "stale" when the world has changed since
                      \* the last successful run, "fresh" when it has not,
                      \* "rerun" during a run started when fresh
    fetchLog,         \* history: the page requests of this run, in order
    touched,          \* history: courses whose loop wrote in this run
    last,             \* history: what the last step of the invocation did
    saved,            \* history: the courses syncCourse has called
                      \* saveSettings for in this run, in order
    settings,         \* settings: coursesText, courses and rubricMode
    savedSettings,    \* the settings as last handed to saveData
    call              \* a function under study: its name, its argument and
                      \* what it returned

procVars == <<pc, ci, linkHeader, numPages, pageIdx, assignments, ai, result>>
histVars == <<sync, fetchLog, touched, last, saved>>
tabVars == <<settings, savedSettings, call>>
storeVars == <<knownAssignments, savedData, files, folders, pending>>
vars == <<knownAssignments, savedData, files, folders, pending, remote,
          pc, ci, linkHeader, numPages, pageIdx, assignments, ai, result,
          envSteps, sync, fetchLog, touched, last, saved, settings,
          savedSettings, call>>

(***************************************************************************)
(* The Document Renderer.                                                  *)
(***************************************************************************)
\* the offset of local time from UTC, in hours
TZOffset == 5

\* moment.utc(t).local().format("YYYY-MM-DD HH:mm:ss"): <<day, hour>>
FormatLocal(t) == <<(t + TZOffset) \div 24, (t + TZOffset) % 24>>

\* the frontmatter value of due the renderer derives
RenderDue(assignment) ==
    IF assignment.due_at /= None THEN FormatLocal(assignment.due_at[1])
    ELSE <<>>

\* str.split("T")[0]
RECURSIVE SplitTFirst(_)
SplitTFirst(str) ==
    IF str = <<>> \/ Head(str) = "T" THEN <<>>
    ELSE <<Head(str)>> \o SplitTFirst(Tail(str))

RenderAssigned(assignment) == SplitTFirst(assignment.created_at)

Line(kind, a, b, points) == [kind |-> kind, a |-> a, b |-> b, points |-> points]

\* htmlToMarkdown(description.replace("\n", "").replace("h2", "h3"))
DescriptionSection(assignment) ==
    IF assignment.description /= None
    THEN << Line("## Description", <<>>, <<>>, 0),
            Line("markdown",
                 ReplaceFirst(ReplaceFirst(assignment.description[1],
                                           "\n", <<>>),
                              "<h2>", <<"<h3>">>),
                 <<>>, 0) >>
    ELSE <<>>

\* if (rubricItem.long_description): neither undefined nor ""
TodoItem(item) ==
    << Line("- [ ] **", <<item.description>>, <<>>, item.points) >>
    \o (IF item.long_description /= None /\ item.long_description /= Some("")
        THEN << Line("\t- _", item.long_description, <<>>, 0) >>
        ELSE <<>>)

\* the third cell is  rubricItem.long_description ?? ""
TableRow(item) ==
    << Line("| row |", <<item.description>>,
            IF item.long_description = None THEN Some("")
            ELSE item.long_description,
            item.points) >>

\* the section, had it been rendered for a rubric with criteria only
RubricSectionNonEmpty(assignment, mode) ==
    IF assignment.rubric /= None /\ assignment.rubric /= Some(<<>>)
    THEN << Line("## Rubric", <<>>, <<>>, 0) >> \o
         (CASE mode = "todo-list" ->
                 Flatten([i \in DOMAIN assignment.rubric[1] |->
                             TodoItem(assignment.rubric[1][i])])
            [] mode = "table" ->
                 << Line("| Criteria | Points | Description |", <<>>, <<>>, 0),
                    Line("| -------- | ------ | ----------- |", <<>>, <<>>, 0) >>
                 \o Flatten([i \in DOMAIN assignment.rubric[1] |->
                                TableRow(assignment.rubric[1][i])]))
    ELSE <<>>

RubricSection(assignment, mode) ==
    IF assignment.rubric /= None
    THEN << Line("## Rubric", <<>>, <<>>, 0) >> \o
         (CASE mode = "todo-list" ->
                 Flatten([i \in DOMAIN assignment.rubric[1] |->
                             TodoItem(assignment.rubric[1][i])])
            [] mode = "table" ->
                 << Line("| Criteria | Points | Description |", <<>>, <<>>, 0),
                    Line("| -------- | ------ | ----------- |", <<>>, <<>>, 0) >>
                 \o Flatten([i \in DOMAIN assignment.rubric[1] |->
                                TableRow(assignment.rubric[1][i])]))
    ELSE <<>>

makeAssignment(assignment, course) ==
    [tags     |-> <<"assignment">> \o course.extraTags,
     due      |-> RenderDue(assignment),
     assigned |-> RenderAssigned(assignment),
     url      |-> assignment.html_url,
     done     |-> FALSE,
     extra    |-> course.extraFrontmatter,
     body     |-> DescriptionSection(assignment)
                    \o RubricSection(assignment, settings.rubricMode)]

NoStep == [kind |-> "none", id |-> 0, ci |-> 0]

\* no function is under study
NoCall == [fn |-> "none", arg |-> <<>>, ret |-> <<>>]
Step(kind, id) == [kind |-> kind, id |-> id, ci |-> ci]

\* the plugin after onload, before any command has run
SyncInit ==
    /\ knownAssignments = EmptyMap
    /\ savedData = EmptyMap
    /\ files = EmptyMap
    /\ folders = {}
    /\ pending = {}
    /\ remote = [id \in AssignmentIds |->
                    [name |-> OriginalName(id), updated_at |-> 0,
                     due_at |-> IF id = 4 THEN None ELSE Some(20)]]
    /\ pc = "idle"
    /\ ci = 0
    /\ linkHeader = <<>>
    /\ numPages = 0
    /\ pageIdx = 0
    /\ assignments = <<>>
    /\ ai = 0
    /\ result = "none"
    /\ envSteps = 0
    /\ sync = "stale"
    /\ fetchLog = <<>>
    /\ touched = {}
    /\ last = NoStep
    /\ saved = <<>>

\* the sync is studied with the course list Courses configured
Init ==
    /\ SyncInit
    /\ settings = [coursesText |-> CoursesText, courses |-> Courses,
                   rubricMode |-> rubricMode]
    /\ savedSettings = settings
    /\ call = NoCall

(***************************************************************************)
(* The vault (obsidian's app.vault and app.fileManager).                   *)
(***************************************************************************)
\* vault.getFileByPath(path) != null
FileExists(path) == path \in DOMAIN files

\* vault.getFolderByPath(folder) != null
FolderExists(folder) == folder \in folders

\* the folder a note path lies in: the path up to its last "/"
ParentOf(path) ==
    LET slashes == {i \in DOMAIN path : path[i] = "/"}
    IN  IF slashes = {} THEN <<>>
        ELSE SubSeq(path, 1, (CHOOSE i \in slashes :
                                 \A j \in slashes : j <= i) - 1)

\* the file operations the plugin starts and does not await: who started
\* them (assignment id, course index) and what they carry (the text of
\* a create, the assignment the processFrontMatter callback closes over)
CreateFolderOp(folder, k) ==
    [op |-> "createFolder", path |-> folder, note |-> None, from |-> None,
     id |-> 0, ci |-> k]
CreateOp(path, note, id) ==
    [op |-> "create", path |-> path, note |-> Some(note), from |-> None,
     id |-> id, ci |-> ci]
ProcessFrontMatterOp(path, assignment) ==
    [op |-> "processFrontMatter", path |-> path, note |-> None,
     from |-> Some(assignment), id |-> assignment.id, ci |-> ci]

ModifyOp(path, note, id) ==
    [op |-> "modify", path |-> path, note |-> Some(note), from |-> None,
     id |-> id, ci |-> 0]

\* the callback, had the disabled line  frontmatter.done = ...  been left in
FrontMatterCallbackWithDone(frontmatter, assignment) ==
    [frontmatter EXCEPT
        !.due = IF assignment.due_at /= None
                THEN FormatLocal(assignment.due_at[1]) ELSE @,
        !.assigned = SplitTFirst(assignment.created_at),
        !.done = assignment.has_submitted_submissions]

\* the callback syncCourse hands to processFrontMatter
FrontMatterCallback(frontmatter, assignment) ==
    [frontmatter EXCEPT
        !.due = IF assignment.due_at /= None
                THEN FormatLocal(assignment.due_at[1]) ELSE @,
        !.assigned = SplitTFirst(assignment.created_at)]

(***************************************************************************)
(* The server's answers (getAssignmentPage).                               *)
(***************************************************************************)
\* the JSON array of page idx (zero-based) of a course: requested as
\* page = idx + 1; a page past the last one is an empty array
PageJson(course, idx) ==
    IF course \in DOMAIN CoursePages /\ idx + 1 <= Len(CoursePages[course])
    THEN [j \in DOMAIN CoursePages[course][idx + 1] |->
             ApiAssignment(CoursePages[course][idx + 1][j],
                           remote[CoursePages[course][idx + 1][j]])]
    ELSE <<>>

\* the Link header of the first page: a list of links, each a page number
\* and a rel; "partial" is the header Canvas sends without a rel="last" link
LinkHeader(course, kind) ==
    LET n == Len(CoursePages[course])
    IN  << [page |-> 1, rel |-> "current"] >>
        \o (IF n > 1 THEN << [page |-> 2, rel |-> "next"] >> ELSE <<>>)
        \o << [page |-> 1, rel |-> "first"] >>
        \o (IF kind = "full" THEN << [page |-> n, rel |-> "last"] >>
            ELSE <<>>)

\* the page count, had a header without rel="last" been taken for one page
NumPagesStrOrOne(header) ==
    LET hits == SelectSeq(header, LAMBDA l : l.rel = "last")
    IN  IF hits = <<>> THEN Some(1) ELSE Some(hits[1].page)

\* linkHeader.match(/page=(\d+)[^>]*>; rel="last"/)?.[1]
NumPagesStr(header) ==
    LET hits == SelectSeq(header, LAMBDA l : l.rel = "last")
    IN  IF hits = <<>> THEN None ELSE Some(hits[1].page)

\* the course id getAssignmentPage is called with for the pages after the
\* first
PageRequestCourse(course) == PageCourse

Request(course, idx) == [course |-> course, idx |-> idx, ci |-> ci]

(***************************************************************************)
(* The sync command: the callback, syncAssignments and syncCourse.         *)
(***************************************************************************)
\* syncAssignments' loop arrives at course index k: after the last course
\* it returns true; otherwise it starts the folder's creation when the
\* folder is missing and calls syncCourse, which requests page 0
EnterCourse(k, log) ==
    IF k > Len(Courses)
    THEN /\ pc' = "idle"
         /\ result' = "success"
         /\ ci' = 0
         /\ fetchLog' = log
         /\ sync' = "fresh"
         /\ UNCHANGED pending
    ELSE /\ pc' = "awaitFirst"
         /\ result' = "none"
         /\ ci' = k
         /\ fetchLog' = Append(log, [course |-> Courses[k].id, idx |-> 0,
                                     ci |-> k])
         /\ pending' = IF FolderExists(Courses[k].folder) THEN pending
                       ELSE pending \cup
                              {CreateFolderOp(Courses[k].folder, k)}
         /\ sync' = IF pc = "idle" /\ sync = "fresh" THEN "rerun" ELSE sync

\* the locals of syncCourse, between two calls of it
ResetLocals ==
    /\ linkHeader' = <<>>
    /\ numPages' = 0
    /\ pageIdx' = 0
    /\ assignments' = <<>>
    /\ ai' = 0

\* no sync is running and the vault has completed what it was asked: the
\* states in which the user acts and the teacher's edits are looked at
Quiet == pc = "idle" /\ pending = {}

\* the user runs the command "Sync Canvas assignments"
StartSync ==
    /\ Quiet
    /\ touched' = {}
    /\ last' = [kind |-> "start", id |-> 0, ci |-> 0]
    /\ ResetLocals
    /\ EnterCourse(1, <<>>)
    /\ saved' = <<>>
    /\ UNCHANGED <<knownAssignments, savedData, files, folders, remote,
                   envSteps, tabVars>>

\* syncCourse returns false or throws: syncAssignments returns false or
\* rejects, and the callback reports the failure
Fail(why) ==
    /\ pc' = "idle"
    /\ result' = "failure"
    /\ last' = Step(why, 0)
    /\ sync' = IF sync = "rerun" THEN "fresh" ELSE sync
    /\ ResetLocals
    /\ UNCHANGED <<ci, fetchLog, touched, saved, storeVars, remote,
                   envSteps, tabVars>>

\* a page request is rejected (network error, status >= 400)
FetchFails ==
    /\ pc \in {"awaitFirst", "awaitPage"}
    /\ Fail("fetch-failed")

\* the first page arrives without any Link header: linkHeader is undefined
\* and linkHeader.match throws
FirstPageWithoutHeader ==
    /\ pc = "awaitFirst"
    /\ Fail("no-header")

\* after the last page: the loop over the assignments starts
StartLoop ==
    /\ pc' = "loop"
    /\ ai' = 1
    /\ pageIdx' = 0

\* the first page arrives with a Link header
FirstPageArrives(kind) ==
    /\ pc = "awaitFirst"
    /\ LET course == Courses[ci]
           header == LinkHeader(course.id, kind)
           numPagesStr == NumPagesStr(header)
       IN  IF numPagesStr = None
           THEN Fail("no-last-page")
           ELSE /\ linkHeader' = header
                /\ numPages' = numPagesStr[1]
                /\ assignments' = PageJson(course.id, 0)
                /\ last' = Step("page", 0)
                /\ IF 1 < numPagesStr[1]
                   THEN /\ pc' = "awaitPage"
                        /\ pageIdx' = 1
                        /\ ai' = 0
                        /\ fetchLog' = Append(fetchLog,
                              Request(PageRequestCourse(course), 1))
                   ELSE /\ StartLoop
                        /\ UNCHANGED fetchLog
                /\ UNCHANGED <<ci, result, touched, saved, storeVars,
                               remote, envSteps, sync, tabVars>>

\* a later page arrives
PageArrives ==
    /\ pc = "awaitPage"
    /\ LET course == Courses[ci]
       IN  /\ assignments' = assignments
                \o PageJson(PageRequestCourse(course), pageIdx)
           /\ last' = Step("page", 0)
           /\ IF pageIdx + 1 < numPages
              THEN /\ pageIdx' = pageIdx + 1
                   /\ fetchLog' = Append(fetchLog,
                         Request(PageRequestCourse(course), pageIdx + 1))
                   /\ UNCHANGED <<pc, ai>>
              ELSE /\ StartLoop
                   /\ UNCHANGED fetchLog
    /\ UNCHANGED <<ci, linkHeader, numPages, result, touched, saved,
                   storeVars, remote, envSteps, sync, tabVars>>

\* the change signal, had it also asked for the note to be there
KnownUnchangedAndPresent(knownData, assignment) ==
    /\ knownData.lastUpdated = assignment.updated_at
    /\ FileExists(knownData.filePath)

\* knownData.lastUpdated === assignment.updated_at
KnownUnchanged(knownData, assignment) ==
    knownData.lastUpdated = assignment.updated_at

\* the cache after a known, changed assignment was handled: syncCourse
\* assigns nothing to knownData on this path
CacheAfterChanged(known, assignment) == known

\* the path of a recreated note, had it been computed anew
RecreatePathRecomputed(knownData, course, assignment) ==
    NewFilePath(course, assignment)

\* the path the note of a known assignment whose file is gone is created at
RecreatePath(knownData, course, assignment) == knownData.filePath

\* the operation for a known, changed assignment, had the note been
\* rendered anew whether or not it is there
ChangedOpRerender(knownData, course, assignment) ==
    IF ~FileExists(knownData.filePath)
    THEN CreateOp(RecreatePath(knownData, course, assignment),
                  makeAssignment(assignment, course), assignment.id)
    ELSE [op |-> "modify", path |-> knownData.filePath,
          note |-> Some(makeAssignment(assignment, course)), from |-> None,
          id |-> assignment.id, ci |-> ci]

\* the operation started for a known, changed assignment
ChangedOp(knownData, course, assignment) ==
    IF ~FileExists(knownData.filePath)
    THEN CreateOp(RecreatePath(knownData, course, assignment),
                  makeAssignment(assignment, course), assignment.id)
    ELSE ProcessFrontMatterOp(knownData.filePath, assignment)

\* the cache entry, had classID been taken from the assignment
NewEntryOfAssignmentCourse(course, assignment, filePath) ==
    [name |-> assignment.name, classID |-> assignment.course_id,
     lastUpdated |-> assignment.updated_at, filePath |-> filePath]

\* the cache entry recorded for an unknown assignment
NewEntry(course, assignment, filePath) ==
    [name |-> assignment.name, classID |-> course.id,
     lastUpdated |-> assignment.updated_at, filePath |-> filePath]

\* the operations for an unknown assignment, had the check been left out
NewOpsUnguarded(course, assignment, filePath) ==
    {CreateOp(filePath, makeAssignment(assignment, course), assignment.id)}

\* the operations started for an unknown assignment: a create, unless a
\* file is at the path
NewOps(course, assignment, filePath) ==
    IF ~FileExists(filePath)
    THEN {CreateOp(filePath, makeAssignment(assignment, course),
                   assignment.id)}
    ELSE {}

\* the saved cache, had saveSettings been called in the loop's body
SavedAfterAssignmentPersisted(savedCache, known) == known

\* the saved cache after one iteration of the loop: its body holds no call
\* of saveSettings
SavedAfterAssignment(savedCache, known) == savedCache

\* one iteration of  for (const assignment of assignments)
ProcessAssignment ==
    /\ pc = "loop"
    /\ ai <= Len(assignments)
    /\ ai' = ai + 1
    /\ LET assignment == assignments[ai]
           course == Courses[ci]
       IN  IF assignment.id \in DOMAIN knownAssignments
           THEN LET knownData == knownAssignments[assignment.id]
                IN  IF KnownUnchanged(knownData, assignment)
                    THEN /\ last' = Step("skip", assignment.id)
                         /\ UNCHANGED <<knownAssignments, pending, touched>>
                    ELSE /\ pending' = pending \cup
                               {ChangedOp(knownData, course, assignment)}
                         /\ knownAssignments' =
                               CacheAfterChanged(knownAssignments, assignment)
                         /\ touched' = touched \cup {ci}
                         /\ last' = Step(IF FileExists(knownData.filePath)
                                         THEN "update" ELSE "recreate",
                                         assignment.id)
           ELSE LET filePath == NewFilePath(course, assignment)
                IN  /\ knownAssignments' = knownAssignments @@
                          (assignment.id :>
                              NewEntry(course, assignment, filePath))
                    /\ pending' = pending \cup
                          NewOps(course, assignment, filePath)
                    /\ touched' = touched \cup {ci}
                    /\ last' = Step(IF FileExists(filePath)
                                    THEN "new-kept" ELSE "new", assignment.id)
    /\ savedData' = SavedAfterAssignment(savedData, knownAssignments')
    /\ UNCHANGED <<pc, ci, linkHeader, numPages, pageIdx, assignments,
                   result, files, folders, remote, envSteps, sync, fetchLog,
                   saved, tabVars>>

\* await this.saveSettings(): saveData is handed the settings and the cache
SaveSettings ==
    /\ pc = "loop"
    /\ ai > Len(assignments)
    /\ savedData' = knownAssignments
    /\ savedSettings' = settings
    /\ saved' = Append(saved, ci)
    /\ pc' = "awaitSave"
    /\ last' = Step("save", 0)
    /\ UNCHANGED <<ci, linkHeader, numPages, pageIdx, assignments, ai,
                   result, knownAssignments, files, folders, pending,
                   remote, envSteps, sync, fetchLog, touched, settings,
                   call>>

\* saveData has resolved: syncCourse returns true and syncAssignments goes
\* on with the next course
CourseDone ==
    /\ pc = "awaitSave"
    /\ EnterCourse(ci + 1, fetchLog)
    /\ last' = Step("course-done", 0)
    /\ ResetLocals
    /\ UNCHANGED <<knownAssignments, savedData, files, folders, remote,
                   envSteps, touched, saved, tabVars>>

(***************************************************************************)
(* The vault completes a file operation.  syncCourse awaits none of them, *)
(* so they complete at any later await of the invocation or after it, in   *)
(* any order.  The vault rejects a create whose path holds a file ("File   *)
(* already exists") or whose folder is missing, and a processFrontMatter   *)
(* or a modify whose file is gone; a rejection changes nothing.            *)
(***************************************************************************)
FilesAfter(op) ==
    CASE op.op = "create" ->
            IF FileExists(op.path) \/ ~FolderExists(ParentOf(op.path))
            THEN files
            ELSE files @@ (op.path :> op.note[1])
      [] op.op = "processFrontMatter" ->
            IF FileExists(op.path)
            THEN [files EXCEPT
                     ![op.path] = FrontMatterCallback(@, op.from[1])]
            ELSE files
      [] op.op = "modify" ->
            IF FileExists(op.path)
            THEN [files EXCEPT ![op.path] = op.note[1]]
            ELSE files
      [] OTHER -> files

FsComplete(op) ==
    /\ pc /= "loop"
    /\ op \in pending
    /\ pending' = pending \ {op}
    /\ files' = FilesAfter(op)
    /\ folders' = IF op.op = "createFolder" THEN folders \cup {op.path}
                  ELSE folders
    /\ UNCHANGED <<knownAssignments, savedData, remote, procVars, envSteps,
                   histVars, tabVars>>

(***************************************************************************)
(* The world around the plugin.                                            *)
(***************************************************************************)
\* the due date a teacher's edit moves a due date to
NextDue(due) ==
    CASE due = Some(20) -> None
      [] due = None     -> Some(47)
      [] OTHER          -> Some(20)

\* the name a teacher's edit gives an assignment
Renamed(id, name) ==
    IF name = OriginalName(id) THEN OtherName(id) ELSE OriginalName(id)

World == [kind |-> "world", id |-> 0, ci |-> 0]

\* the teacher edits an assignment: "rename" and "reschedule" bump its
\* updated_at, "quiet" is a change of the due date Canvas does not count
RemoteChange(id, edit) ==
    /\ envSteps < MaxEnvSteps
    /\ Quiet
    /\ remote' = [remote EXCEPT
          ![id] = CASE edit = "rename" ->
                         [@ EXCEPT !.name = Renamed(id, @),
                                   !.updated_at = @ + 1]
                    [] edit = "reschedule" ->
                         [@ EXCEPT !.due_at = NextDue(@),
                                   !.updated_at = @ + 1]
                    [] edit = "quiet" ->
                         [@ EXCEPT !.due_at = NextDue(@)]]
    /\ envSteps' = envSteps + 1
    /\ last' = World
    /\ sync' = "stale"
    /\ UNCHANGED <<storeVars, procVars, fetchLog, touched, saved, tabVars>>

\* the user deletes a note
UserDelete(path) ==
    /\ envSteps < MaxEnvSteps
    /\ Quiet
    /\ FileExists(path)
    /\ files' = [q \in DOMAIN files \ {path} |-> files[q]]
    /\ envSteps' = envSteps + 1
    /\ last' = World
    /\ sync' = "stale"
    /\ UNCHANGED <<knownAssignments, savedData, folders, pending, remote,
                   procVars, fetchLog, touched, saved, tabVars>>

\* the user edits a note by hand: ticks it done, tags it, writes in its body
UserEdit(path) ==
    /\ envSteps < MaxEnvSteps
    /\ Quiet
    /\ FileExists(path)
    /\ ~files[path].done
    /\ files' = [files EXCEPT
                    ![path].done = TRUE,
                    ![path].tags = Append(@, "mine"),
                    ![path].body = Append(@, Line("my notes", <<>>, <<>>, 0))]
    /\ envSteps' = envSteps + 1
    /\ last' = World
    /\ sync' = "stale"
    /\ UNCHANGED <<knownAssignments, savedData, folders, pending, remote,
                   procVars, fetchLog, touched, saved, tabVars>>

\* the command "Reset Assignment" with the note at path in the active
\* view: the ids of the course and of the assignment are read from the
\* note's url, the course must be one of settings.courses, the assignment
\* is fetched and the note is replaced by its render (vault.modify, not
\* awaited).  Nothing else runs between the request and its answer here,
\* so the answer is the assignment as it is on the server now.
ResetAssignment(path) ==
    /\ envSteps < MaxEnvSteps
    /\ Quiet
    /\ FileExists(path)
    /\ LET courseID == files[path].url[2]
           assignmentID == files[path].url[4]
           found == {k \in DOMAIN Courses : Courses[k].id = courseID}
       IN  /\ found /= {}
           /\ LET course == Courses[CHOOSE k \in found :
                                       \A j \in found : k <= j]
                  assignment == ApiAssignment(assignmentID,
                                              remote[assignmentID])
              IN  /\ pending' = pending \cup
                        {ModifyOp(path, makeAssignment(assignment, course),
                                  assignmentID)}
                  /\ last' = [kind |-> "reset", id |-> assignmentID,
                              ci |-> 0]
    /\ envSteps' = envSteps + 1
    /\ sync' = "stale"
    /\ UNCHANGED <<knownAssignments, savedData, files, folders, remote,
                   procVars, fetchLog, touched, saved, tabVars>>

\* the button "Clear" of the settings tab
ClearCache ==
    /\ envSteps < MaxEnvSteps
    /\ Quiet
    /\ knownAssignments' = EmptyMap
    /\ savedData' = EmptyMap
    /\ savedSettings' = settings
    /\ envSteps' = envSteps + 1
    /\ last' = World
    /\ sync' = "stale"
    /\ UNCHANGED <<files, folders, pending, remote, procVars, fetchLog,
                   touched, saved, settings, call>>

Next ==
    \/ StartSync
    \/ FetchFails
    \/ FirstPageWithoutHeader
    \/ \E kind \in {"full", "partial"} : FirstPageArrives(kind)
    \/ PageArrives
    \/ ProcessAssignment
    \/ SaveSettings
    \/ CourseDone
    \/ \E op \in pending : FsComplete(op)
    \/ \E id \in EditedIds, edit \in {"rename", "reschedule", "quiet"} :
          RemoteChange(id, edit)
    \/ \E path \in DOMAIN files : UserDelete(path)
    \/ \E path \in DOMAIN files : UserEdit(path)
    \/ \E path \in DOMAIN files : ResetAssignment(path)
    \/ ClearCache

Spec == Init /\ [][Next]_vars

(***************************************************************************)
(* The Course Rule Parser (parseCourseSettings).  A rule is a sequence of  *)
(* one-character strings; undefined and null are None.                     *)
(***************************************************************************)
\* String.prototype.split with a one-character separator
RECURSIVE Split(_, _)
Split(str, sep) ==
    LET hits == {i \in DOMAIN str : str[i] = sep}
    IN  IF hits = {} THEN <<str>>
        ELSE LET k == CHOOSE i \in hits : \A j \in hits : i <= j
             IN  <<SubSeq(str, 1, k - 1)>>
                    \o Split(SubSeq(str, k + 1, Len(str)), sep)

WhiteSpace == {" ", "\t"}

RECURSIVE TrimStart(_)
TrimStart(str) ==
    IF str /= <<>> /\ Head(str) \in WhiteSpace THEN TrimStart(Tail(str))
    ELSE str

RECURSIVE TrimEnd(_)
TrimEnd(str) ==
    IF str /= <<>> /\ str[Len(str)] \in WhiteSpace
    THEN TrimEnd(SubSeq(str, 1, Len(str) - 1))
    ELSE str

\* String.prototype.trim
Trim(str) == TrimEnd(TrimStart(str))

Digits == <<"0", "1", "2", "3", "4", "5", "6", "7", "8", "9">>

IsDigit(c) == c \in Range(Digits)

DigitValue(c) == (CHOOSE i \in DOMAIN Digits : Digits[i] = c) - 1

RECURSIVE Decimal(_)
Decimal(ds) ==
    IF ds = <<>> THEN 0
    ELSE Decimal(SubSeq(ds, 1, Len(ds) - 1)) * 10 + DigitValue(ds[Len(ds)])

\* the longest prefix of str that is made of digits
RECURSIVE DigitPrefix(_)
DigitPrefix(str) ==
    IF str /= <<>> /\ IsDigit(Head(str))
    THEN <<Head(str)>> \o DigitPrefix(Tail(str))
    ELSE <<>>

\* parseInt(x), None being NaN: white space, a sign, then the digits up to
\* the first character that is none (rules with 0x are outside the rules
\* studied here)
parseInt(x) ==
    IF x = None THEN None
    ELSE LET str == TrimStart(x[1])
             signed == str /= <<>> /\ Head(str) \in {"+", "-"}
             digits == DigitPrefix(IF signed THEN Tail(str) ELSE str)
         IN  IF digits = <<>> THEN None
             ELSE Some(IF signed /\ Head(str) = "-" THEN 0 - Decimal(digits)
                       ELSE Decimal(digits))

\* rule.split(";").map((kv) => kv.split("=").map((s) => s.trim()))
RuleEntries(rule) ==
    LET kvs == Split(rule, ";")
    IN  [i \in DOMAIN kvs |->
            LET parts == Split(kvs[i], "=")
            IN  [j \in DOMAIN parts |-> Trim(parts[j])]]

\* a property key that is an array index: own properties with such keys come
\* first, in ascending order (keys here stay far below 2^32 - 1)
IsIndexKey(k) ==
    /\ k /= <<>>
    /\ \A i \in DOMAIN k : IsDigit(k[i])
    /\ (k[1] /= "0" \/ Len(k) = 1)

HasKey(dict, k) == \E i \in DOMAIN dict : dict[i][1] = k

\* where a new property k of dict goes in the order of its own properties
InsertAt(dict, k) ==
    IF IsIndexKey(k)
    THEN 1 + Cardinality({i \in DOMAIN dict :
                             /\ IsIndexKey(dict[i][1])
                             /\ Decimal(dict[i][1]) < Decimal(k)})
    ELSE Len(dict) + 1

\* dict[k] = v on an object, kept as the sequence of its own properties
\* <<k, v>> in the order Object.entries lists them: an assignment to a key
\* that is there replaces its value where it stands
SetProperty(dict, k, v) ==
    IF HasKey(dict, k)
    THEN [i \in DOMAIN dict |-> IF dict[i][1] = k THEN <<k, v>> ELSE dict[i]]
    ELSE LET at == InsertAt(dict, k)
         IN  SubSeq(dict, 1, at - 1) \o << <<k, v>> >>
                \o SubSeq(dict, at, Len(dict))

\* Object.fromEntries(entries): of each entry its first element is the key
\* and its second the value, undefined when the entry has one element
RECURSIVE FromEntries(_)
FromEntries(entries) ==
    IF entries = <<>> THEN <<>>
    ELSE LET e == entries[Len(entries)]
         IN  SetProperty(FromEntries(SubSeq(entries, 1, Len(entries) - 1)),
                         e[1], IF Len(e) >= 2 THEN Some(e[2]) ELSE None)

\* dict[k], None when undefined
GetProperty(dict, k) ==
    IF HasKey(dict, k) THEN (CHOOSE e \in Range(dict) : e[1] = k)[2] ELSE None

KeyId == <<"i", "d">>
KeyFolder == <<"f", "o", "l", "d", "e", "r">>
KeyTags == <<"t", "a", "g", "s">>

\* Object.entries(dict).filter(([k, _]) => k !== "tags" && k !== "id" && ...)
ExtraFrontmatter(dict) ==
    SelectSeq(dict, LAMBDA e : e[1] \notin {KeyTags, KeyId, KeyFolder})

\* parseCourseSettings(rule): None is null
parseCourseSettings(rule) ==
    LET dict == FromEntries(RuleEntries(rule))
        id == parseInt(GetProperty(dict, KeyId))
        folder == GetProperty(dict, KeyFolder)
        tags == GetProperty(dict, KeyTags)
    IN  IF id = None THEN None
        ELSE Some([id |-> id[1],
                   folder |-> IF folder = None THEN <<>> ELSE folder[1],
                   extraTags |->
                       IF tags = None THEN <<>>
                       ELSE LET ts == Split(tags[1], ",")
                            IN  [i \in DOMAIN ts |-> Trim(ts[i])],
                   extraFrontmatter |-> ExtraFrontmatter(dict)])

(***************************************************************************)
(* The settings tab: the handlers of the course list and of the rubric     *)
(* mode.  Each ends with saveSettings, which hands saveData the settings   *)
(* and the cache.                                                          *)
(***************************************************************************)
DEFAULT_SETTINGS ==
    [coursesText |-> <<>>, courses |-> <<>>, rubricMode |-> rubricMode]

syncVars == <<knownAssignments, files, folders, pending, remote, procVars,
              envSteps, histVars>>

\* value.split("\n").filter((line) => !line.startsWith("#"))
\*      .map(parseCourseSettings)
ParsedLines(value) ==
    LET lines == SelectSeq(Split(value, "\n"),
                           LAMBDA line : ~(line /= <<>> /\ Head(line) = "#"))
    IN  [i \in DOMAIN lines |-> parseCourseSettings(lines[i])]

\* the check, had it looked at the first line only
DataIsValidFirstLine(data) == data = <<>> \/ data[1] /= None

\* !data.includes(null)
DataIsValid(data) == \A i \in DOMAIN data : data[i] /= None

\* onChange of the text area "Courses"; data as CourseSettings[] is a cast,
\* so settings.courses holds the parser's results as they are
CoursesChanged(value) ==
    /\ LET data == ParsedLines(value)
       IN  IF DataIsValid(data)
           THEN /\ settings' = [settings EXCEPT !.coursesText = value,
                                                !.courses = data]
                /\ savedSettings' = settings'
                /\ savedData' = knownAssignments
                /\ call' = [fn |-> "onChange", arg |-> value,
                            ret |-> <<"valid">>]
           ELSE /\ call' = [fn |-> "onChange", arg |-> value,
                            ret |-> <<"invalid">>]
                /\ UNCHANGED <<settings, savedSettings, savedData>>
    /\ UNCHANGED syncVars

\* onChange of the dropdown "Display rubrics as"
RubricModeChanged(value) ==
    /\ settings' = [settings EXCEPT !.rubricMode = value]
    /\ savedSettings' = settings'
    /\ savedData' = knownAssignments
    /\ call' = [fn |-> "rubricMode", arg |-> <<value>>, ret |-> <<"valid">>]
    /\ UNCHANGED syncVars

\* the lines the user types into the text area, and how many of them
MaxLines == 2

TextLines ==
    { <<"i", "d", "=", "1">>,
      <<"i", "d", "=", "2", ";", "f", "o", "l", "d", "e", "r", "=", "A">>,
      <<"f", "o", "l", "d", "e", "r", "=", "A">>,
      <<"#", "c">> }

RECURSIVE Join(_, _)
Join(strs, sep) ==
    IF Len(strs) = 0 THEN <<>>
    ELSE IF Len(strs) = 1 THEN strs[1]
    ELSE strs[1] \o sep \o Join(Tail(strs), sep)

CourseTexts ==
    {Join(ls, <<"\n">>) : ls \in UNION {[1..n -> TextLines] : n \in 1..MaxLines}}

RubricModes == {"todo-list", "table"}

SettingsInit ==
    /\ SyncInit
    /\ settings = DEFAULT_SETTINGS
    /\ savedSettings = settings
    /\ call = NoCall

SettingsNext ==
    \/ \E value \in CourseTexts : CoursesChanged(value)
    \/ \E value \in RubricModes : RubricModeChanged(value)

SettingsSpec == SettingsInit /\ [][SettingsNext]_vars

(***************************************************************************)
(* The functions studied on their own: parseCourseSettings, the path of a  *)
(* new note, makeAssignment.  call holds the function, its argument and,   *)
(* once it has returned, its result.                                       *)
(***************************************************************************)
\* how many key/value pairs a rule has, how long an assignment name is, how
\* many criteria a rubric has
MaxPairs == 3
MaxNameLen == 3
MaxCriteria == 2

\* the pieces a rule is made of, joined by ";"
RulePieces ==
    { <<"i", "d", "=", "1">>,
      <<"f", "o", "l", "d", "e", "r", "=", "A">>,
      <<"t", "a", "g", "s", "=", "x", ",", " ", "y">>,
      <<"k", "=", "v">>,
      <<"k", "=", "w">>,
      <<"7", "=", "z">>,
      <<" ", "b", " ", "=", " ", "u", " ">>,
      <<>> }

Rules ==
    {Join(ps, <<";">>) : ps \in UNION {[1..n -> RulePieces] : n \in 1..MaxPairs}}

\* course folders and assignment names
Folders == { <<>>, <<"A">>, <<"A", "/", "B">> }

NameChars == {"Q", "/", ":", "\""}

QuizName == <<"Q", "u", "i", "z", " ", "1", "/", "2">>

Names ==
    UNION {[1..n -> NameChars] : n \in 1..MaxNameLen} \cup {QuizName}

\* rubrics and the assignments that carry them
RubricItems ==
    { [points |-> 5, description |-> "clarity",
       long_description |-> Some("is it clear")],
      [points |-> 3, description |-> "style", long_description |-> None],
      [points |-> 0, description |-> "effort", long_description |-> Some("")] }

Rubrics ==
    {None} \cup
    {Some(items) : items \in UNION {[1..n -> RubricItems] : n \in 0..MaxCriteria}}

RenderedAssignments ==
    { [ApiAssignment(1, [name |-> OriginalName(1), updated_at |-> 0,
                         due_at |-> Some(20)])
          EXCEPT !.rubric = rubric, !.description = description] :
        rubric \in Rubrics,
        description \in {None, Some(<<"<h2>", "\n", "text", "\n", "</h2>">>)} }

Called(fn, arg) == [fn |-> fn, arg |-> arg, ret |-> <<>>]

PureInit ==
    /\ SyncInit
    /\ \E mode \in RubricModes :
          /\ settings = [coursesText |-> CoursesText, courses |-> Courses,
                         rubricMode |-> mode]
          /\ \/ \E assignment \in RenderedAssignments :
                   call = Called("makeAssignment", assignment)
             \/ /\ mode = rubricMode
                /\ \/ \E rule \in Rules :
                         call = Called("parseCourseSettings", rule)
                   \/ \E folder \in Folders, name \in Names :
                         call = Called("filePath", <<folder, name>>)
    /\ savedSettings = settings

Returns(value) ==
    /\ call.ret = <<>>
    /\ call' = [call EXCEPT !.ret = Some(value)]
    /\ UNCHANGED <<syncVars, savedData, settings, savedSettings>>

ParseRule ==
    /\ call.fn = "parseCourseSettings"
    /\ Returns(parseCourseSettings(call.arg))

\* the path syncCourse computes for an assignment that is not in the cache
ComputeFilePath ==
    /\ call.fn = "filePath"
    /\ Returns(NewFilePath([folder |-> call.arg[1]], [name |-> call.arg[2]]))

RenderAssignment ==
    /\ call.fn = "makeAssignment"
    /\ Returns(makeAssignment(call.arg, Courses[1]))

PureNext ==
    \/ ParseRule
    \/ ComputeFilePath
    \/ RenderAssignment

PureSpec == PureInit /\ [][PureNext]_vars

(***************************************************************************)
(* What the claims speak of.                                               *)
(***************************************************************************)
\* the invocation is about to run one iteration of the assignment loop
LoopStep == pc = "loop" /\ ai <= Len(assignments)

\* the assignment of that iteration, and the course being synced
Cur == assignments[ai]
CurCourse == Courses[ci]

CurKnown == LoopStep /\ Cur.id \in DOMAIN knownAssignments
CurUnchanged ==
    CurKnown /\ knownAssignments[Cur.id].lastUpdated = Cur.updated_at
CurChanged ==
    CurKnown /\ knownAssignments[Cur.id].lastUpdated /= Cur.updated_at
CurUnknown == LoopStep /\ Cur.id \notin DOMAIN knownAssignments

\* the file operations a step starts, and those it completes
Started == pending' \ pending
Completed == pending \ pending'

\* a step starts exactly one operation, and it is op
StartsOnly(kind, path) ==
    /\ pending \subseteq pending'
    /\ Cardinality(Started) = 1
    /\ \A op \in Started : op.op = kind /\ op.path = path

\* two notes that differ in nothing but due and assigned
SameButDueAssigned(n, m) ==
    [m EXCEPT !.due = n.due, !.assigned = n.assigned] = n

\* a create that finds its path free and its folder present makes the file
CreateLands ==
    \A op \in Completed :
        (op.op = "create" /\ ~FileExists(op.path)
            /\ FolderExists(ParentOf(op.path)))
        => files' = files @@ (op.path :> op.note[1])

FailKinds == {"fetch-failed", "no-header", "no-last-page"}

\* C1: a run that starts after a successful run, with no change on the
\* server, in the vault or in the cache since, writes no file and leaves
\* the cache alone: every assignment of it takes the known-unchanged path.
C1_SecondRunIsIdle ==
    [][sync' = "rerun" =>
          /\ knownAssignments' = knownAssignments
          /\ files' = files
          /\ \A op \in Started : op.op = "createFolder"
          /\ (LoopStep => last'.kind = "skip")]_vars

\* C2: once syncCourse has handled a known, changed assignment, its cache
\* entry's lastUpdated is the remote updated_at; so when the loop of a
\* course is over every assignment of its list has a cache entry with the
\* remote updated_at.
C2_LastUpdatedFollowsRemote ==
    /\ (pc = "loop" /\ last.kind \in {"update", "recreate"})
          => knownAssignments[last.id].lastUpdated
                = assignments[ai - 1].updated_at
    /\ pc = "awaitSave"
          => \A i \in DOMAIN assignments :
                /\ assignments[i].id \in DOMAIN knownAssignments
                /\ knownAssignments[assignments[i].id].lastUpdated
                      = assignments[i].updated_at

\* C3: an assignment whose cache entry has the remote updated_at is skipped:
\* no file operation is started, no file and no cache entry changes,
\* whatever else differs and whether or not its note is still there.
C3_UnchangedIsSkipped ==
    [][CurUnchanged =>
          /\ knownAssignments' = knownAssignments
          /\ pending' = pending
          /\ files' = files
          /\ folders' = folders
          /\ savedData' = savedData]_vars

C3_Witness ==
    /\ pc = "loop"
    /\ last.kind = "skip"
    /\ last.id = 4
    /\ FileExists(knownAssignments[4].filePath)
    /\ files[knownAssignments[4].filePath].due
          /= RenderDue(assignments[ai - 1])
    /\ \E id \in DOMAIN knownAssignments :
          /\ ~FileExists(knownAssignments[id].filePath)
          /\ knownAssignments[id].lastUpdated = remote[id].updated_at

\* C4: for a known, changed assignment whose note exists syncCourse starts
\* one processFrontMatter on the cached path and nothing else, and what
\* that operation does to the vault is to change the due and assigned
\* fields of that note: its tags, url, done, extra fields and body, and
\* every other note, stay as they were.
C4_NarrowUpdate ==
    [][/\ (CurChanged /\ FileExists(knownAssignments[Cur.id].filePath))
             => /\ files' = files
                /\ StartsOnly("processFrontMatter",
                              knownAssignments[Cur.id].filePath)
       /\ \A op \in Completed :
             op.op = "processFrontMatter"
             => /\ DOMAIN files' = DOMAIN files
                /\ \A p \in DOMAIN files :
                      /\ SameButDueAssigned(files[p], files'[p])
                      /\ p /= op.path => files'[p] = files[p]]_vars

C4_Witness ==
    /\ 4 \in DOMAIN knownAssignments
    /\ knownAssignments[4].lastUpdated = 0
    /\ remote[4] = [name |-> OriginalName(4), updated_at |-> 1,
                    due_at |-> Some(47)]
    /\ \A op \in pending : op.op /= "processFrontMatter"
    /\ FileExists(knownAssignments[4].filePath)
    /\ LET note == files[knownAssignments[4].filePath]
       IN  /\ note.done
           /\ note.body[Len(note.body)].kind = "my notes"
           /\ note.due = FormatLocal(47)

\* C5: when the processFrontMatter of an in-place update has run, the
\* note's due and assigned are the values the renderer derives from the
\* fresh assignment, due being empty when the assignment has no due date.
C5_UpdateWritesRenderedValues ==
    [][\A op \in Completed :
          (op.op = "processFrontMatter" /\ FileExists(op.path))
          => /\ FileExists(op.path)'
             /\ files'[op.path].due = RenderDue(op.from[1])
             /\ files'[op.path].assigned = RenderAssigned(op.from[1])]_vars

C8_NoOverwrite ==
    [][/\ (CurUnknown /\ FileExists(NewFilePath(CurCourse, Cur)))
             => /\ files' = files
                /\ pending' = pending
                /\ Cur.id \in DOMAIN knownAssignments'
                /\ knownAssignments'[Cur.id].filePath
                      = NewFilePath(CurCourse, Cur)
       /\ \A op \in Completed :
             op.op = "create"
             => \A p \in DOMAIN files :
                   p \in DOMAIN files' /\ files'[p] = files[p]]_vars

C8_Witness ==
    /\ pc = "loop"
    /\ last.kind = "new-kept"
    /\ savedData = EmptyMap
    /\ envSteps > 0
    /\ FileExists(knownAssignments[last.id].filePath)
    /\ pending = {}

\* C9: when the pages of a course are in, the requests made for it are those
\* for the page indices 0 .. N-1 in this order, N being the page the first
\* Link header gives as last, every one for the id of the course, and the
\* list to reconcile is the pages of the course one after the other.
C9_PagesOfTheCourse ==
    pc = "loop" =>
        /\ SelectSeq(fetchLog, LAMBDA r : r.ci = ci)
              = [k \in 1..numPages |->
                    [course |-> Courses[ci].id, idx |-> k - 1, ci |-> ci]]
        /\ assignments
              = Flatten([k \in 1..numPages |->
                            PageJson(Courses[ci].id, k - 1)])

\* C10: a run goes on with a course only if the first page's Link header
\* has a rel="last" link; a rejected page request, a missing header or a
\* header without that link ends the run with a failure reported, the step
\* changes neither cache nor saved cache nor files nor the operations under
\* way, nothing was written or recorded for the failing course, and no
\* later course was requested.
C10_AbortOnFailure ==
    /\ [](pc \in {"awaitPage", "loop", "awaitSave"}
            => \E l \in Range(linkHeader) : l.rel = "last")
    /\ [](last.kind \in FailKinds
            => /\ pc = "idle"
               /\ result = "failure"
               /\ ci \notin touched
               /\ \A r \in Range(fetchLog) : r.ci <= ci
               /\ \A op \in pending :
                     /\ op.ci <= ci
                     /\ op.ci = ci => op.op = "createFolder")
    /\ [][(pc /= "idle" /\ last'.kind \in FailKinds)
            => /\ knownAssignments' = knownAssignments
               /\ savedData' = savedData
               /\ files' = files
               /\ folders' = folders
               /\ pending' = pending]_vars

C10_Witness ==
    /\ last.kind = "no-last-page"
    /\ result = "failure"
    /\ ci = 2
    /\ touched = {1}
    /\ DOMAIN savedData = {1, 4}
    /\ \E op \in pending : op.op = "create" /\ op.ci = 1

\* C11: in a sync run saveSettings is called once for every course whose
\* loop has ended and for no other: when a course is being fetched or
\* reconciled the calls so far are those for the courses before it, one
\* each and in order, and when success is reported those for all courses;
\* the call is made when the loop is past its last assignment, never by an
\* iteration of the loop, and what it hands over is the cache in memory.
C11_SavedOncePerCourse ==
    /\ [](pc \in {"awaitFirst", "awaitPage", "loop"}
            => saved = [k \in 1..(ci - 1) |-> k])
    /\ [](pc = "awaitSave"
            => /\ saved = [k \in 1..ci |-> k]
               /\ savedData = knownAssignments)
    /\ []((pc = "idle" /\ result = "success")
            => saved = [k \in 1..Len(Courses) |-> k])
    /\ [][(pc /= "idle" /\ (savedData' /= savedData \/ saved' /= saved))
            => /\ pc = "loop"
               /\ ai > Len(assignments)
               /\ pc' = "awaitSave"
               /\ saved' = Append(saved, ci)
               /\ knownAssignments' = knownAssignments
               /\ savedData' = knownAssignments]_vars

C11_Witness ==
    /\ pc = "awaitSave"
    /\ ci = 2
    /\ saved = <<1, 2>>
    /\ DOMAIN savedData = {1, 3, 4}
    /\ savedData = knownAssignments
    /\ pending /= {}

\* the lines of a text that are taken as rules: those not beginning with #
RuleLines(value) ==
    SelectSeq(Split(value, "\n"),
              LAMBDA line : line = <<>> \/ Head(line) /= "#")

\* C12: after the courses text is changed to a value, the lines beginning
\* with # aside: if every line parses to a course, the text area is valid,
\* settings.coursesText is the value, settings.courses the parsed courses in
\* line order, and these settings are what was handed to saveData; if some
\* line does not parse, the text area is marked invalid, and the change that
\* marked it left settings.coursesText, settings.courses and what was saved
\* as they were.
C12_AtomicAcceptance ==
    /\ [](call.fn = "onChange"
            => LET rules == RuleLines(call.arg)
                   parsed == [i \in DOMAIN rules |->
                                 parseCourseSettings(rules[i])]
               IN  IF \A i \in DOMAIN rules : parsed[i] /= None
                   THEN /\ call.ret = <<"valid">>
                        /\ settings.coursesText = call.arg
                        /\ settings.courses = parsed
                        /\ savedSettings = settings
                   ELSE call.ret = <<"invalid">>)
    /\ [][(call' /= call /\ call'.fn = "onChange"
                         /\ call'.ret = <<"invalid">>)
            => /\ settings' = settings
               /\ savedSettings' = savedSettings
               /\ savedData' = savedData]_vars

C12_Witness ==
    /\ call.fn = "onChange"
    /\ call.ret = <<"invalid">>
    /\ LET lines == Split(call.arg, "\n")
       IN  /\ Len(lines) = 2
           /\ parseCourseSettings(lines[1]) /= None
           /\ parseCourseSettings(lines[2]) = None
    /\ Len(settings.courses) = 2
    /\ settings.coursesText /= call.arg
    /\ savedSettings = settings

\* the key/value pairs of a rule as written: of every part  k = v  between
\* the semicolons, k and v without the white space around them
PairsOf(rule) ==
    LET kvs == SelectSeq(Split(rule, ";"), LAMBDA kv : "=" \in Range(kv))
    IN  [i \in DOMAIN kvs |->
            LET parts == Split(kvs[i], "=")
            IN  <<Trim(parts[1]), Some(Trim(parts[2]))>>]

\* C13: for a rule with an integer id, the extraFrontmatter that
\* parseCourseSettings returns is the rule's key/value pairs whose key is
\* not id, folder or tags, one entry for each, in the order of the rule,
\* and nothing else.
C13_ExtraFrontmatterInRuleOrder ==
    (call.fn = "parseCourseSettings" /\ call.ret /= <<>>
        /\ call.ret[1] /= None)
    => call.ret[1][1].extraFrontmatter
          = SelectSeq(PairsOf(call.arg),
                      LAMBDA kv : kv[1] \notin {KeyId, KeyFolder, KeyTags})

\* a name with every one of / \ : [ ] | # ^ * & replaced by an underscore
\* and every double quote by an apostrophe
Sanitized(name) ==
    [i \in DOMAIN name |->
        IF name[i] \in InvalidCharacters THEN "_"
        ELSE IF name[i] = "\"" THEN "'" ELSE name[i]]

\* the file-name component of a path: what follows its last "/"
FileName(path) ==
    LET slashes == {i \in DOMAIN path : path[i] = "/"}
    IN  IF slashes = {} THEN path
        ELSE SubSeq(path, 1 + CHOOSE i \in slashes : \A j \in slashes : j <= i,
                    Len(path))

\* C14: the path computed for an assignment that is not in the cache is the
\* folder, a "/" (neither when the folder is empty), the sanitized name and
\* ".md"; so its file-name component holds none of / \ : [ ] | # ^ * & and
\* no double quote, and "Quiz 1/2" gives a path that ends in "Quiz 1_2.md".
C14_SanitizedPath ==
    (call.fn = "filePath" /\ call.ret /= <<>>)
    => LET folder == call.arg[1]
           name == call.arg[2]
           path == call.ret[1]
       IN  /\ path = (IF folder = <<>> THEN <<>> ELSE folder \o <<"/">>)
                        \o Sanitized(name) \o <<".md">>
           /\ \A i \in DOMAIN FileName(path) :
                 FileName(path)[i] \notin InvalidCharacters \cup {"\""}
           /\ name = QuizName
                 => FileName(path)
                       = <<"Q", "u", "i", "z", " ", "1", "_", "2", ".md">>

\* C15: every file operation a sync invocation has started has completed
\* when the invocation starts another one, when it calls saveSettings and
\* when it reports success; and the folder of a note exists when the note's
\* creation is started.
C15_OperationsAwaited ==
    [][/\ (pc /= "idle"
             /\ \/ Started /= {}
                \/ saved' /= saved
                \/ result' = "success")
          => pending = {}
       /\ \A op \in Started :
             op.op = "create" => FolderExists(ParentOf(op.path))]_vars

\* the user's own change of a note: deleting it, editing it by hand
UserChangesNote ==
    \E path \in DOMAIN files : UserDelete(path) \/ UserEdit(path)

\* C16 (as claimed): a note that exists stays, and no step of the plugin
\* (a sync, the reset command, the cache's clearing) changes anything of it
\* but its due and assigned fields.
C16_NoteBodyKept ==
    [][\/ UserChangesNote
       \/ \A p \in DOMAIN files :
             /\ p \in DOMAIN files'
             /\ SameButDueAssigned(files[p], files'[p])]_vars

\* C16 (amended): a note that exists stays, and a sync of any course and the
\* cache's clearing change nothing of it but its due and assigned fields;
\* the one operation that replaces a note is the vault.modify of the
\* command "Reset Assignment", which puts the fresh render of the
\* assignment in its place.
C16_NoteBodyKeptButByReset ==
    [][\/ UserChangesNote
       \/ \A p \in DOMAIN files :
             /\ p \in DOMAIN files'
             /\ \/ SameButDueAssigned(files[p], files'[p])
                \/ \E op \in Completed :
                      /\ op.op = "modify"
                      /\ op.ci = 0
                      /\ op.path = p
                      /\ last.kind = "reset"
                      /\ files'[p] = op.note[1]]_vars

C16_Witness ==
    /\ last.kind = "reset"
    /\ last.id = 4
    /\ pending = {}
    /\ 4 \in DOMAIN knownAssignments
    /\ knownAssignments[4].classID = 7
    /\ FileExists(knownAssignments[4].filePath)
    /\ files[knownAssignments[4].filePath]
          = makeAssignment(ApiAssignment(4, remote[4]), Courses[2])
    /\ files[knownAssignments[4].filePath]
          /= makeAssignment(ApiAssignment(4, remote[4]), Courses[1])

\* the lines of a note's body that follow its first `## Rubric` heading
RubricLines(body) ==
    LET at == {i \in DOMAIN body : body[i].kind = "## Rubric"}
    IN  IF at = {} THEN <<>>
        ELSE SubSeq(body, 1 + CHOOSE i \in at : \A j \in at : i <= j,
                    Len(body))

\* the place of the k-th checklist line among the lines of a section
CheckLineAt(section, k) ==
    LET at == {i \in DOMAIN section : section[i].kind = "- [ ] **"}
    IN  CHOOSE i \in at : Cardinality({j \in at : j <= i}) = k

\* C17: the rendered note has a `## Rubric` heading, and one only, exactly
\* when the rubric is a list (empty or not).  In table mode what follows is
\* the two header rows and then one row for each criterion, in the order of
\* the rubric, with its description, points and long description (empty
\* when it has none); in todo-list mode what follows is checklist and
\* italic lines only: one "- [ ] **" line for each criterion, in order,
\* with its description and points, followed by an italic line with the
\* long description exactly when the criterion has one.
C17_RubricRendering ==
    (call.fn = "makeAssignment" /\ call.ret /= <<>>)
    => LET body == call.ret[1].body
           rubric == call.arg.rubric
           headings == {i \in DOMAIN body : body[i].kind = "## Rubric"}
           section == RubricLines(body)
       IN  /\ (headings /= {}) <=> (rubric /= None)
           /\ Cardinality(headings) <= 1
           /\ rubric /= None =>
                LET items == rubric[1]
                IN  IF settings.rubricMode = "table"
                    THEN /\ Len(section) = 2 + Len(items)
                         /\ section[1].kind
                               = "| Criteria | Points | Description |"
                         /\ section[2].kind
                               = "| -------- | ------ | ----------- |"
                         /\ \A k \in DOMAIN items :
                               /\ section[2 + k].kind = "| row |"
                               /\ section[2 + k].a = <<items[k].description>>
                               /\ section[2 + k].points = items[k].points
                               /\ section[2 + k].b =
                                     IF items[k].long_description = None
                                     THEN Some("")
                                     ELSE items[k].long_description
                    ELSE /\ \A i \in DOMAIN section :
                               section[i].kind \in {"- [ ] **", "\t- _"}
                         /\ Cardinality({i \in DOMAIN section :
                                            section[i].kind = "- [ ] **"})
                               = Len(items)
                         /\ \A i \in DOMAIN section :
                               section[i].kind = "\t- _"
                               => i > 1 /\ section[i - 1].kind = "- [ ] **"
                         /\ \A k \in DOMAIN items :
                               LET i == CheckLineAt(section, k)
                                   long == items[k].long_description
                               IN  /\ section[i].a = <<items[k].description>>
                                   /\ section[i].points = items[k].points
                                   /\ IF long \notin {None, Some("")}
                                      THEN /\ i < Len(section)
                                           /\ section[i + 1].kind = "\t- _"
                                           /\ section[i + 1].a = long
                                      ELSE \/ i = Len(section)
                                           \/ section[i + 1].kind = "- [ ] **"

C17_Witness ==
    /\ call.fn = "makeAssignment"
    /\ call.ret /= <<>>
    /\ settings.rubricMode = "table"
    /\ call.arg.rubric /= None
    /\ Len(call.arg.rubric[1]) = 2
    /\ call.arg.rubric[1][1] /= call.arg.rubric[1][2]
    /\ call.arg.description /= None
    /\ Len(RubricLines(call.ret[1].body)) = 4

\* C18: no two assignments of the cache have the same filePath.
C18_DistinctPaths ==
    \A i, j \in DOMAIN knownAssignments :
        i /= j => knownAssignments[i].filePath /= knownAssignments[j].filePath

\* C19: when a sync starts the creation of a note, no file is at the path
\* and no creation started earlier for that path is still under way; so no
\* creation started by a sync finds a file at its path when it completes.
C19_NoCreateOnTakenPath ==
    [][/\ \A op \in Started :
             op.op = "create"
             => /\ ~FileExists(op.path)
                /\ \A earlier \in pending :
                      ~(earlier.op = "create" /\ earlier.path = op.path)
       /\ \A op \in Completed :
             op.op = "create" => ~FileExists(op.path)]_vars

\* C20: when a sync that was started right after a successful one, with
\* nothing changed on the server, in the vault or in the cache since the
\* plugin was loaded, reports success, every assignment of the cache has its
\* note at its filePath or the note's creation under way: a creation that
\* failed in the run before has been made up for.
C20_FailedCreateIsRetried ==
    [][(envSteps = 0 /\ sync = "rerun" /\ pc /= "idle" /\ pc' = "idle"
          /\ result' = "success")
          => \A id \in DOMAIN knownAssignments :
                \/ FileExists(knownAssignments[id].filePath)
                \/ \E op \in pending :
                      /\ op.op = "create"
                      /\ op.path = knownAssignments[id].filePath]_vars

=============================================================================
